---- MODULE Spec2Model ----
(***************************************************************************)
(* Model of frontend/src/environments/environment.ts: the module exports   *)
(* one object literal, `environment`.  The state is the module's export    *)
(* binding (uninitialised until the module body has been evaluated) and    *)
(* what each consuming component has read from it so far.                  *)
(*                                                                         *)
(* A JavaScript value is a record tagged with its `typeof`: a boolean, a   *)
(* string (a TLA+ string, read character by character with SubSeq), or an  *)
(* object (a function from its own property keys to values).               *)
(***************************************************************************)
EXTENDS Integers, Sequences, FiniteSets, TLC

VARIABLES binding, copy

vars == <<binding, copy>>

----------------------------------------------------------------------------
(* JavaScript values *)

Bool(b) == [type |-> "boolean", val |-> b]
Str(s) == [type |-> "string", val |-> s]
Obj(f) == [type |-> "object", val |-> f]
Undefined == [type |-> "undefined"]
Uninitialized == [type |-> "uninitialized"]
Unread == [type |-> "unread"]

----------------------------------------------------------------------------
(* The literals of the file *)

\* The earlier variant kept in the file as a comment (lines 4-13).
environmentEarlier ==
    Obj([production |-> Bool(FALSE),
         apiServerUrl |-> Str("http://127.0.0.1:5000"),
         auth0 |-> Obj([url |-> Str("fsnd-joel"),
                        audience |-> Str("coffee_api"),
                        clientId |-> Str("Q3OOJUkbDk1guLXFPqFMtmuZVqm9EAPq"),
                        callbackURL |-> Str("http://localhost:8100")])])

(* The exported literal as slips of the pen would leave it *)

\* The flag written as the string 'false'.
environmentQuotedFlag ==
    Obj([production |-> Str("false"),
         apiServerUrl |-> Str("http://127.0.0.1:5000"),
         auth0 |-> Obj([url |-> Str("dev-0occ77jb"),
                        audience |-> Str("coffee_shop"),
                        clientId |-> Str("bfK0CU5bv2J5GzzpkrWLWkfJOfmR6TdX"),
                        callbackURL |-> Str("http://localhost:8100")])])

\* The API address written without its scheme.
environmentNoScheme ==
    Obj([production |-> Bool(FALSE),
         apiServerUrl |-> Str("127.0.0.1:5000"),
         auth0 |-> Obj([url |-> Str("dev-0occ77jb"),
                        audience |-> Str("coffee_shop"),
                        clientId |-> Str("bfK0CU5bv2J5GzzpkrWLWkfJOfmR6TdX"),
                        callbackURL |-> Str("http://localhost:8100")])])

\* The client id left blank.
environmentBlankClientId ==
    Obj([production |-> Bool(FALSE),
         apiServerUrl |-> Str("http://127.0.0.1:5000"),
         auth0 |-> Obj([url |-> Str("dev-0occ77jb"),
                        audience |-> Str("coffee_shop"),
                        clientId |-> Str(""),
                        callbackURL |-> Str("http://localhost:8100")])])

\* callbackURL spelt callbackUrl.
environmentRenamedKey ==
    Obj([production |-> Bool(FALSE),
         apiServerUrl |-> Str("http://127.0.0.1:5000"),
         auth0 |-> Obj([url |-> Str("dev-0occ77jb"),
                        audience |-> Str("coffee_shop"),
                        clientId |-> Str("bfK0CU5bv2J5GzzpkrWLWkfJOfmR6TdX"),
                        callbackUrl |-> Str("http://localhost:8100")])])

\* The callback pointed at the API server's port.
environmentSharedPort ==
    Obj([production |-> Bool(FALSE),
         apiServerUrl |-> Str("http://127.0.0.1:5000"),
         auth0 |-> Obj([url |-> Str("dev-0occ77jb"),
                        audience |-> Str("coffee_shop"),
                        clientId |-> Str("bfK0CU5bv2J5GzzpkrWLWkfJOfmR6TdX"),
                        callbackURL |-> Str("http://localhost:5000")])])

\* The exported literal (lines 21-30).
environment ==
    Obj([production |-> Bool(FALSE),
         apiServerUrl |-> Str("http://127.0.0.1:5000"),
         auth0 |-> Obj([url |-> Str("dev-0occ77jb"),
                        audience |-> Str("coffee_shop"),
                        clientId |-> Str("bfK0CU5bv2J5GzzpkrWLWkfJOfmR6TdX"),
                        callbackURL |-> Str("http://localhost:8100")])])

----------------------------------------------------------------------------
(* Property access *)

Keys(v) == IF v.type = "object" THEN DOMAIN v.val ELSE {}

RECURSIVE Get(_, _)
\* v.k1.k2...: the value at a property path; a missing property is undefined.
Get(v, path) ==
    IF path = <<>> THEN v
    ELSE IF Head(path) \in Keys(v) THEN Get(v.val[Head(path)], Tail(path))
    ELSE Undefined

RECURSIVE LeafPaths(_)
\* The paths of the non-object properties of v, at any depth.
LeafPaths(v) ==
    IF v.type # "object" THEN {<<>>}
    ELSE UNION {{<<k>> \o p : p \in LeafPaths(v.val[k])} : k \in Keys(v)}

\* A read through an accessor that switches the flag on when it is first asked
\* for, instead of a plain data property.
PropertyReadAccessor(obj, path) ==
    [value |-> Get(obj, path),
     obj |-> IF path = <<"production">> /\ "production" \in Keys(obj)
             THEN Obj([obj.val EXCEPT !.production = Bool(TRUE)])
             ELSE obj]

\* Reading a property of the literal: every property is a plain data
\* property (none is declared with `get`), so a read yields the stored value
\* and leaves the object as it was.
PropertyRead(obj, path) == [value |-> Get(obj, path), obj |-> obj]

----------------------------------------------------------------------------
(* The state machine *)

\* The components that import the record.
Consumers == {"bootstrap", "auth"}

ReadPaths == LeafPaths(environment)

Init ==
    /\ binding = Uninitialized
    /\ copy = [c \in Consumers |-> [p \in ReadPaths |-> Unread]]

\* Evaluation of the module body: `export const environment = { ... }`.
\* A module is evaluated once, and a const binding is initialised once.
LoadModule ==
    /\ binding = Uninitialized
    /\ binding' = environment
    /\ UNCHANGED copy

\* The consumer's record of what it has read, with one more field stored.
Stored(seen, c, p, v) == [seen EXCEPT ![c][p] = v]

\* Application bootstrap reads a field of the imported record. An importer
\* runs only after the module it imports has been evaluated.
BootstrapRead ==
    \E p \in ReadPaths :
        /\ binding # Uninitialized
        /\ binding' = PropertyRead(binding, p).obj
        /\ copy' = Stored(copy, "bootstrap", p, PropertyRead(binding, p).value)

\* Authentication initialisation reads a field of the imported record.
AuthRead ==
    \E p \in ReadPaths :
        /\ binding # Uninitialized
        /\ binding' = PropertyRead(binding, p).obj
        /\ copy' = Stored(copy, "auth", p, PropertyRead(binding, p).value)

Next == LoadModule \/ BootstrapRead \/ AuthRead

Spec == Init /\ [][Next]_vars

----------------------------------------------------------------------------
(* Strings, character by character *)

Digits == {"0", "1", "2", "3", "4", "5", "6", "7", "8", "9"}

Letters ==
    {"a", "b", "c", "d", "e", "f", "g", "h", "i", "j", "k", "l", "m",
     "n", "o", "p", "q", "r", "s", "t", "u", "v", "w", "x", "y", "z",
     "A", "B", "C", "D", "E", "F", "G", "H", "I", "J", "K", "L", "M",
     "N", "O", "P", "Q", "R", "S", "T", "U", "V", "W", "X", "Y", "Z"}

\* The substring of s from position a to position b, clamped to s; empty
\* when nothing of s lies between them.
StrSub(s, a, b) ==
    LET lo == IF a < 1 THEN 1 ELSE a
        hi == IF b > Len(s) THEN Len(s) ELSE b
    IN IF lo > hi THEN "" ELSE SubSeq(s, lo, hi)

CharAt(s, i) == StrSub(s, i, i)

AllIn(s, alphabet) == \A i \in 1..Len(s) : CharAt(s, i) \in alphabet

\* The first position at which sub occurs in s, or 0.
IndexOf(s, sub) ==
    LET hits == {i \in 1..(Len(s) - Len(sub) + 1) :
                    SubSeq(s, i, i + Len(sub) - 1) = sub}
    IN IF hits = {} THEN 0 ELSE CHOOSE i \in hits : \A j \in hits : i <= j

DigitValue(d) ==
    CASE d = "0" -> 0 [] d = "1" -> 1 [] d = "2" -> 2 [] d = "3" -> 3
      [] d = "4" -> 4 [] d = "5" -> 5 [] d = "6" -> 6 [] d = "7" -> 7
      [] d = "8" -> 8 [] d = "9" -> 9

RECURSIVE ToNat(_)
\* The number a string of decimal digits denotes.
ToNat(s) ==
    IF Len(s) = 0 THEN 0
    ELSE 10 * ToNat(StrSub(s, 1, Len(s) - 1)) + DigitValue(CharAt(s, Len(s)))

----------------------------------------------------------------------------
(* URL syntax: scheme "://" host [ ":" port ] *)

SchemeEnd(u) == IndexOf(u, "://")

Scheme(u) == StrSub(u, 1, SchemeEnd(u) - 1)

Authority(u) ==
    IF SchemeEnd(u) = 0 THEN "" ELSE StrSub(u, SchemeEnd(u) + 3, Len(u))

HasPort(u) == IndexOf(Authority(u), ":") # 0

Host(u) ==
    IF HasPort(u)
    THEN StrSub(Authority(u), 1, IndexOf(Authority(u), ":") - 1)
    ELSE Authority(u)

Port(u) ==
    IF HasPort(u)
    THEN StrSub(Authority(u), IndexOf(Authority(u), ":") + 1, Len(Authority(u)))
    ELSE ""

IsValidURL(u) ==
    /\ SchemeEnd(u) > 1
    /\ CharAt(u, 1) \in Letters
    /\ AllIn(Scheme(u), Letters \cup Digits \cup {"+", "-", "."})
    /\ Len(Host(u)) > 0
    /\ AllIn(Host(u), Letters \cup Digits \cup {".", "-"})
    /\ HasPort(u) => (Len(Port(u)) > 0 /\ AllIn(Port(u), Digits))

IsString(v) == v.type = "string"

IsUrlValue(v) == IsString(v) /\ IsValidURL(v.val)

IsLoopback(h) == h = "localhost" \/ StrSub(h, 1, 4) = "127."

Loaded == binding # Uninitialized

Field(path) == Get(binding, path)

HasRead(c, p) == p \in DOMAIN copy[c] /\ copy[c][p] # Unread

RECURSIVE AllPaths(_)
\* Every property path of v, the objects on the way included.
AllPaths(v) ==
    IF v.type # "object" THEN {<<>>}
    ELSE {<<>>} \cup UNION {{<<k>> \o p : p \in AllPaths(v.val[k])} : k \in Keys(v)}

\* The shape of a value: its property paths, each with the type found there.
ShapeOf(v) == {<<p, Get(v, p).type>> : p \in AllPaths(v)}

StringPaths ==
    {<<"apiServerUrl">>, <<"auth0", "url">>, <<"auth0", "audience">>,
     <<"auth0", "clientId">>, <<"auth0", "callbackURL">>}

UrlPaths == {<<"apiServerUrl">>, <<"auth0", "callbackURL">>}

----------------------------------------------------------------------------
(* Properties *)

\* C1: once the module is loaded, the exported record has exactly the
\* top-level keys production, apiServerUrl and auth0; auth0 has exactly the
\* keys url, audience, clientId and callbackURL; production is a boolean and
\* the five other leaf fields are strings; there are six leaf fields in all,
\* and whatever a consumer has read is a boolean or a string accordingly.
C1_ExactlySixTypedFields ==
    Loaded =>
        /\ Keys(binding) = {"production", "apiServerUrl", "auth0"}
        /\ Keys(Field(<<"auth0">>)) = {"url", "audience", "clientId", "callbackURL"}
        /\ Field(<<"production">>).type = "boolean"
        /\ \A p \in StringPaths : Field(p).type = "string"
        /\ LeafPaths(binding) = StringPaths \cup {<<"production">>}
        /\ Cardinality(LeafPaths(binding)) = 6
        /\ \A c \in Consumers : \A p \in DOMAIN copy[c] :
               HasRead(c, p) =>
                   copy[c][p].type = (IF p = <<"production">> THEN "boolean" ELSE "string")

\* C1 witness: bootstrap has read every one of the six fields of the loaded
\* record, and authentication initialisation none yet.
C1_Witness ==
    /\ Loaded
    /\ Cardinality(ReadPaths) = 6
    /\ \A p \in ReadPaths : HasRead("bootstrap", p) /\ ~HasRead("auth", p)

\* C2: after the module is loaded no step changes the record: it stays equal
\* to the literal it was constructed from, every value a consumer has read is
\* the constructed value of that field, and each step taken once the record
\* exists leaves it as it was.
C2_ImmutableAfterLoad ==
    /\ [](Loaded =>
            /\ binding = environment
            /\ \A c \in Consumers : \A p \in DOMAIN copy[c] :
                   HasRead(c, p) => copy[c][p] = Get(environment, p))
    /\ [][Loaded => binding' = binding]_vars

\* C2 witness: both consumers have read every field, the flag included, and
\* the record is still the constructed one.
C2_Witness ==
    /\ Loaded
    /\ \A c \in Consumers : \A p \in ReadPaths : HasRead(c, p)
    /\ Field(<<"production">>) = Get(environment, <<"production">>)

\* C3: apiServerUrl and auth0.callbackURL of the loaded record are strings of
\* the form scheme "://" host, with a non-empty host and an optional ":" and
\* port of decimal digits.
C3_UrlsAreValid ==
    Loaded => \A p \in UrlPaths : IsUrlValue(Field(p))

\* C3 witness: bootstrap has read apiServerUrl and authentication
\* initialisation has read callbackURL, each a string with a scheme separator.
C3_Witness ==
    /\ HasRead("bootstrap", <<"apiServerUrl">>)
    /\ HasRead("auth", <<"auth0", "callbackURL">>)
    /\ SchemeEnd(copy["bootstrap"][<<"apiServerUrl">>].val) > 1
    /\ SchemeEnd(copy["auth"][<<"auth0", "callbackURL">>].val) > 1

\* C4: auth0.clientId of the loaded record is a non-empty string in the
\* identity provider's identifier format: letters and digits only, and as
\* long as the identifier the same provider issued for the earlier variant
\* kept in the file.
C4_ClientIdWellFormed ==
    Loaded =>
        LET id == Field(<<"auth0", "clientId">>)
        IN /\ IsString(id)
           /\ Len(id.val) > 0
           /\ AllIn(id.val, Letters \cup Digits)
           /\ Len(id.val) = Len(Get(environmentEarlier, <<"auth0", "clientId">>).val)

\* C4 witness: authentication initialisation has read a non-empty clientId.
C4_Witness ==
    /\ HasRead("auth", <<"auth0", "clientId">>)
    /\ Len(copy["auth"][<<"auth0", "clientId">>].val) > 0

\* C5: the exported record and the earlier variant kept in the file have the
\* same shape: the same keys at both nesting levels and the same type under
\* each key.
C5_VariantsShareShape ==
    Loaded => ShapeOf(binding) = ShapeOf(environmentEarlier)

\* C5 witness: the loaded record differs from the earlier variant in the
\* value of at least one field, and a consumer has read such a field.
C5_Witness ==
    /\ Loaded
    /\ \E p \in LeafPaths(binding) \cap LeafPaths(environmentEarlier) :
           /\ Field(p) # Get(environmentEarlier, p)
           /\ HasRead("auth", p)

\* C6: the loaded record is a development variant consistent with itself:
\* production is false, apiServerUrl and auth0.callbackURL both use scheme
\* http, a loopback host and an explicit decimal port, and the two ports are
\* different numbers.
C6_DevelopmentVariant ==
    Loaded =>
        /\ Field(<<"production">>).type = "boolean"
        /\ Field(<<"production">>).val = FALSE
        /\ \A p \in UrlPaths :
               /\ IsUrlValue(Field(p))
               /\ Scheme(Field(p).val) = "http"
               /\ IsLoopback(Host(Field(p).val))
               /\ HasPort(Field(p).val)
        /\ ToNat(Port(Field(<<"apiServerUrl">>).val))
               # ToNat(Port(Field(<<"auth0", "callbackURL">>).val))

\* C6 witness: bootstrap has read production as false, and the two addresses
\* of the loaded record carry the ports 5000 and 8100.
C6_Witness ==
    /\ HasRead("bootstrap", <<"production">>)
    /\ copy["bootstrap"][<<"production">>].val = FALSE
    /\ ToNat(Port(Field(<<"apiServerUrl">>).val)) = 5000
    /\ ToNat(Port(Field(<<"auth0", "callbackURL">>).val)) = 8100

====
